---- MODULE Spec2Model ----
(***************************************************************************)
(* linux-namespaces-in-go: the namespace launcher (main), the re-executed  *)
(* bootstrap entry point (init / nsInitialisation / nsRun), the external   *)
(* network helper (netsetgo) and the interactive shell, as operating       *)
(* system processes that interleave freely.                                *)
(***************************************************************************)
EXTENDS Integers, Sequences, FiniteSets, TLC

\* ------------------------------------------------------------------ bounds
MaxProcs == 3
MaxPolls == 2
MaxShellStatus == 2

Procs == 1..MaxProcs
Launcher == 1
HostNs == 0
ShellStatuses == 0..MaxShellStatus
HostIds == {0, 1000}

\* ------------------------------------------------- program text constants
rootfsPath == "/tmp/ns-process/rootfs"
bootstrapName == "nsInitialisation"
programName == "./linux-namespace"
nsHostname == "ns-process"
hostHostname == "host"
MappingSize == 1

CloneflagsNoUts ==
    {"CLONE_NEWUSER", "CLONE_NEWNS", "CLONE_NEWIPC", "CLONE_NEWNET", "CLONE_NEWPID"}

Cloneflags ==
    {"CLONE_NEWUSER", "CLONE_NEWNS", "CLONE_NEWUTS",
     "CLONE_NEWIPC", "CLONE_NEWNET", "CLONE_NEWPID"}

\* the diagnostics of main, nsInitialisation and nsRun
msgRunning == "Running linux-namespace..."
msgInitialising == ">> initialising namespace <<"
errStart == "Error starting the reexec.Command"
errNetsetgo == "Error running netsetgo"
errWait == "Error waiting for the reexec.Command"
errMountProc == "Error mounting /proc"
errPivotRoot == "Error running pivot_root"
errHostname == "Error setting hostname"
errNetwork == "Error waiting for network"
errShell == "Error running the /bin/sh command"

VARIABLES
    proc,       \* the processes of the program image, by process id
    netsetgo,   \* the helper process run by each process's main
    shell,      \* the /bin/sh process run by each process's nsRun
    netdev,     \* per network namespace: has a device been attached
    hostname,   \* per UTS namespace: the hostname
    uid, gid    \* the caller's real ids (os.Getuid, os.Getgid)

vars == <<proc, netsetgo, shell, netdev, hostname, uid, gid>>

\* ------------------------------------------------------- pure functions

\* createSysProcIDMappings: one single-entry table for uids, one for gids
createSysProcIDMappingsSwapped(containerUID, containerGID, realUid, realGid) ==
    << <<[ContainerID |-> realUid, HostID |-> containerUID, Size |-> MappingSize]>>,
       <<[ContainerID |-> realGid, HostID |-> containerGID, Size |-> MappingSize]>> >>

createSysProcIDMappings(containerUID, containerGID, realUid, realGid) ==
    << <<[ContainerID |-> containerUID, HostID |-> realUid, Size |-> MappingSize]>>,
       <<[ContainerID |-> containerGID, HostID |-> realGid, Size |-> MappingSize]>> >>

\* reexec.Register + reexec.Init: is os.Args[0] a registered initialiser
registered == {bootstrapName}

reexecInit(argv) == Len(argv) > 0 /\ argv[1] \in registered

\* waitForNetwork: one iteration of the bounded poll loop
waitForNetwork(devicePresent, polls) ==
    IF devicePresent THEN "ok"
    ELSE IF polls >= MaxPolls THEN "timeout"
    ELSE "sleep"

\* exec.Cmd.Wait / Run: a non-zero exit status of the child is an error
exitError(status) == status # 0

\* ------------------------------------------------------------ the state

NoAttr == [Cloneflags |-> {}, UidMappings |-> <<>>, GidMappings |-> <<>>]

NoProc ==
    [pc |-> "none", args |-> <<>>, exit |-> -1, parent |-> 0,
     attr |-> NoAttr, uts |-> HostNs, net |-> HostNs,
     cmdPid |-> 0, waited |-> FALSE,
     newrootPath |-> "", procfs |-> {}, root |-> "/",
     polls |-> 0, netResult |-> "pending", trace |-> <<>>, stdout |-> <<>>, stderr |-> <<>>]

NoHelper == [state |-> "none", pidArg |-> 0, exit |-> -1]
NoShell == [state |-> "none", status |-> -1]

Init ==
    /\ uid \in HostIds
    /\ gid \in HostIds
    /\ proc = [p \in Procs |->
                 IF p = Launcher
                 THEN [NoProc EXCEPT !.pc = "init", !.args = <<programName>>]
                 ELSE NoProc]
    /\ netsetgo = [p \in Procs |-> NoHelper]
    /\ shell = [p \in Procs |-> NoShell]
    /\ netdev = [n \in {HostNs} \cup Procs |-> FALSE]
    /\ hostname = [n \in {HostNs} \cup Procs |-> hostHostname]

\* os.Exit(code) after the steps so far
Exited(r, code) == [r EXCEPT !.pc = "exited", !.exit = code]
Step(r, name, ok) == [r EXCEPT !.trace = Append(@, <<name, ok>>)]
Printf(r, msg) == [r EXCEPT !.stdout = Append(@, msg)]

FreePids == {q \in Procs : proc[q].pc = "none"}

\* mountProc(newroot): mount a fresh proc filesystem under the new root
mountProc(r, newroot, ok) ==
    IF ok THEN [r EXCEPT !.procfs = @ \cup {<<newroot, "proc">>}] ELSE r

\* pivotRoot(newroot): newroot becomes "/" and the working directory
pivotRoot(r, newroot, ok) ==
    IF ok THEN [r EXCEPT !.root = newroot] ELSE r

\* ------------------------------------------------ init(): reexec dispatch

\* init() up to reexec.Init(): a registered name runs its initialiser,
\* any other name goes on to main
GoInit(p) ==
    /\ proc[p].pc = "init"
    /\ proc' = [proc EXCEPT ![p].pc =
                   IF reexecInit(proc[p].args) THEN "nsInitialisation" ELSE "main"]
    /\ UNCHANGED <<netsetgo, shell, netdev, hostname, uid, gid>>

\* init(): reexec.Init() returned true, os.Exit(0)
InitExitFallThrough(p) ==
    /\ proc[p].pc = "initReturn"
    /\ proc' = [proc EXCEPT ![p].pc = "main"]
    /\ UNCHANGED <<netsetgo, shell, netdev, hostname, uid, gid>>

InitExit(p) ==
    /\ proc[p].pc = "initReturn"
    /\ proc' = [proc EXCEPT ![p] = Exited(@, 0)]
    /\ UNCHANGED <<netsetgo, shell, netdev, hostname, uid, gid>>

\* ------------------------------------------------------------- main()

\* the process cmd.Start() creates: reexec.Command("nsInitialisation",
\* rootfsPath) under the clone flags and the id mappings
NewChild(p, q) ==
    LET maps == createSysProcIDMappings(0, 0, uid, gid) IN
    [NoProc EXCEPT
        !.pc = "init",
        !.args = <<bootstrapName, rootfsPath>>,
        !.parent = p,
        !.attr = [Cloneflags |-> Cloneflags,
                  UidMappings |-> maps[1], GidMappings |-> maps[2]],
        !.uts = IF "CLONE_NEWUTS" \in Cloneflags THEN q ELSE proc[p].uts,
        !.net = IF "CLONE_NEWNET" \in Cloneflags THEN q ELSE proc[p].net]

\* main up to cmd.Start(): a failed start is fatal
MainStartIgnoreError(p) ==
    /\ proc[p].pc = "main"
    /\ \/ /\ FreePids # {}
          /\ LET q == CHOOSE x \in FreePids : \A y \in FreePids : x <= y IN
             /\ proc' = [proc EXCEPT
                    ![p] = [Step(Printf(@, msgRunning), "start", TRUE)
                               EXCEPT !.pc = "netsetgo", !.cmdPid = q],
                    ![q] = NewChild(p, q)]
             /\ netdev' = [netdev EXCEPT ![q] = FALSE]
             /\ hostname' = [hostname EXCEPT ![q] = hostname[proc[p].uts]]
       \/ /\ proc' = [proc EXCEPT
                    ![p] = [Printf(Step(Printf(@, msgRunning), "start", FALSE), errStart)
                               EXCEPT !.pc = "netsetgo"]]
          /\ UNCHANGED <<netdev, hostname>>
    /\ UNCHANGED <<netsetgo, shell, uid, gid>>

MainStart(p) ==
    /\ proc[p].pc = "main"
    /\ \/ /\ FreePids # {}
          /\ LET q == CHOOSE x \in FreePids : \A y \in FreePids : x <= y IN
             /\ proc' = [proc EXCEPT
                    ![p] = [Step(Printf(@, msgRunning), "start", TRUE)
                               EXCEPT !.pc = "netsetgo", !.cmdPid = q],
                    ![q] = NewChild(p, q)]
             /\ netdev' = [netdev EXCEPT ![q] = FALSE]
             /\ hostname' = [hostname EXCEPT ![q] = hostname[proc[p].uts]]
       \/ /\ proc' = [proc EXCEPT
                    ![p] = Exited(Printf(Step(Printf(@, msgRunning), "start", FALSE),
                                         errStart), 1)]
          /\ UNCHANGED <<netdev, hostname>>
    /\ UNCHANGED <<netsetgo, shell, uid, gid>>

\* main: netsetgoCmd.Run() starts the helper with "-pid" <child pid>;
\* a helper that cannot be started is fatal
MainRunNetsetgo(p) ==
    /\ proc[p].pc = "netsetgo"
    /\ \/ /\ netsetgo' = [netsetgo EXCEPT ![p] =
                    [state |-> "running", pidArg |-> proc[p].cmdPid, exit |-> -1]]
          /\ proc' = [proc EXCEPT ![p].pc = "netsetgoRun"]
       \/ /\ proc' = [proc EXCEPT
                    ![p] = Exited(Printf(Step(@, "netsetgo", FALSE), errNetsetgo), 1)]
          /\ UNCHANGED netsetgo
    /\ UNCHANGED <<shell, netdev, hostname, uid, gid>>

\* the helper attaches a device into the network namespace of its target
NetsetgoAttach(p) ==
    /\ netsetgo[p].state = "running"
    /\ LET t == netsetgo[p].pidArg IN
       /\ t \in Procs
       /\ proc[t].pc \notin {"none", "exited"}
       /\ ~netdev[proc[t].net]
       /\ netdev' = [netdev EXCEPT ![proc[t].net] = TRUE]
    /\ UNCHANGED <<proc, netsetgo, shell, hostname, uid, gid>>

\* the helper exits, with status 0 or not
NetsetgoExit(p) ==
    /\ netsetgo[p].state = "running"
    /\ \E code \in {0, 1} :
          netsetgo' = [netsetgo EXCEPT ![p].state = "done", ![p].exit = code]
    /\ UNCHANGED <<proc, shell, netdev, hostname, uid, gid>>

\* main: netsetgoCmd.Run() returns once the helper has exited;
\* a non-zero exit is fatal
MainNetsetgoReturnIgnoreError(p) ==
    /\ proc[p].pc = "netsetgoRun"
    /\ netsetgo[p].state = "done"
    /\ proc' = [proc EXCEPT ![p] =
                   [Step(@, "netsetgo", ~exitError(netsetgo[p].exit))
                       EXCEPT !.pc = "wait"]]
    /\ UNCHANGED <<netsetgo, shell, netdev, hostname, uid, gid>>

MainNetsetgoReturn(p) ==
    /\ proc[p].pc = "netsetgoRun"
    /\ netsetgo[p].state = "done"
    /\ LET ok == ~exitError(netsetgo[p].exit) IN
       proc' = [proc EXCEPT ![p] =
                   IF ok THEN [Step(@, "netsetgo", TRUE) EXCEPT !.pc = "wait"]
                   ELSE Exited(Printf(Step(@, "netsetgo", FALSE), errNetsetgo), 1)]
    /\ UNCHANGED <<netsetgo, shell, netdev, hostname, uid, gid>>

\* main: cmd.Wait() returns once the child has exited; an error (the child
\* exited non-zero) is fatal, otherwise main returns
MainWaitIgnoreError(p) ==
    /\ proc[p].pc = "wait"
    /\ LET c == proc[p].cmdPid IN
       /\ proc[c].pc = "exited"
       /\ proc' = [proc EXCEPT
              ![c].waited = TRUE,
              ![p] = Exited(Step(@, "wait", ~exitError(proc[c].exit)), 0)]
    /\ UNCHANGED <<netsetgo, shell, netdev, hostname, uid, gid>>

MainWaitWrongPid(p) ==
    /\ proc[p].pc = "wait"
    /\ LET c == p
           ok == ~exitError(proc[c].exit) IN
       /\ proc[c].pc = "exited"
       /\ proc' = [proc EXCEPT
              ![c].waited = TRUE,
              ![p] = IF ok THEN Exited(Step(@, "wait", TRUE), 0)
                     ELSE Exited(Printf(Step(@, "wait", FALSE), errWait), 1)]
    /\ UNCHANGED <<netsetgo, shell, netdev, hostname, uid, gid>>

MainWait(p) ==
    /\ proc[p].pc = "wait"
    /\ LET c == proc[p].cmdPid
           ok == ~exitError(proc[c].exit) IN
       /\ proc[c].pc = "exited"
       /\ proc' = [proc EXCEPT
              ![c].waited = TRUE,
              ![p] = IF ok THEN Exited(Step(@, "wait", TRUE), 0)
                     ELSE Exited(Printf(Step(@, "wait", FALSE), errWait), 1)]
    /\ UNCHANGED <<netsetgo, shell, netdev, hostname, uid, gid>>

\* ------------------------------------------------- nsInitialisation()

\* nsInitialisation: read os.Args[1], mount /proc under it; failure is fatal
NsInitMountProcIgnoreError(p) ==
    /\ proc[p].pc = "nsInitialisation"
    /\ \E ok \in BOOLEAN :
          LET newroot == proc[p].args[2]
              r == [Printf(proc[p], msgInitialising) EXCEPT !.newrootPath = newroot]
              m == Step(mountProc(r, newroot, ok), "mountProc", ok) IN
          proc' = [proc EXCEPT ![p] = [m EXCEPT !.pc = "pivotRoot"]]
    /\ UNCHANGED <<netsetgo, shell, netdev, hostname, uid, gid>>

NsInitMountProc(p) ==
    /\ proc[p].pc = "nsInitialisation"
    /\ \E ok \in BOOLEAN :
          LET newroot == proc[p].args[2]
              r == [Printf(proc[p], msgInitialising) EXCEPT !.newrootPath = newroot]
              m == Step(mountProc(r, newroot, ok), "mountProc", ok) IN
          proc' = [proc EXCEPT ![p] =
                      IF ok THEN [m EXCEPT !.pc = "pivotRoot"]
                      ELSE Exited(Printf(m, errMountProc), 1)]
    /\ UNCHANGED <<netsetgo, shell, netdev, hostname, uid, gid>>

\* nsInitialisation: pivot the root; failure is fatal
NsInitPivotRootWrongArg(p) ==
    /\ proc[p].pc = "pivotRoot"
    /\ \E ok \in BOOLEAN :
          LET m == Step(pivotRoot(proc[p], proc[p].args[1], ok), "pivotRoot", ok) IN
          proc' = [proc EXCEPT ![p] =
                      IF ok THEN [m EXCEPT !.pc = "sethostname"]
                      ELSE Exited(Printf(m, errPivotRoot), 1)]
    /\ UNCHANGED <<netsetgo, shell, netdev, hostname, uid, gid>>

NsInitPivotRoot(p) ==
    /\ proc[p].pc = "pivotRoot"
    /\ \E ok \in BOOLEAN :
          LET m == Step(pivotRoot(proc[p], proc[p].newrootPath, ok), "pivotRoot", ok) IN
          proc' = [proc EXCEPT ![p] =
                      IF ok THEN [m EXCEPT !.pc = "sethostname"]
                      ELSE Exited(Printf(m, errPivotRoot), 1)]
    /\ UNCHANGED <<netsetgo, shell, netdev, hostname, uid, gid>>

\* nsInitialisation: syscall.Sethostname("ns-process") in the process's own
\* UTS namespace; failure is fatal
NsInitSethostnameIgnoreError(p) ==
    /\ proc[p].pc = "sethostname"
    /\ \E ok \in BOOLEAN :
          /\ proc' = [proc EXCEPT ![p] =
                        [Step(@, "sethostname", ok) EXCEPT !.pc = "waitForNetwork"]]
          /\ hostname' = IF ok THEN [hostname EXCEPT ![proc[p].uts] = nsHostname]
                         ELSE hostname
    /\ UNCHANGED <<netsetgo, shell, netdev, uid, gid>>

NsInitSethostname(p) ==
    /\ proc[p].pc = "sethostname"
    /\ \E ok \in BOOLEAN :
          /\ proc' = [proc EXCEPT ![p] =
                        IF ok THEN [Step(@, "sethostname", TRUE)
                                       EXCEPT !.pc = "waitForNetwork"]
                        ELSE Exited(Printf(Step(@, "sethostname", FALSE), errHostname), 1)]
          /\ hostname' = IF ok THEN [hostname EXCEPT ![proc[p].uts] = nsHostname]
                         ELSE hostname
    /\ UNCHANGED <<netsetgo, shell, netdev, uid, gid>>

\* waitForNetwork(): one poll of the process's own network namespace
NetworkPoll(p) ==
    /\ proc[p].pc = "waitForNetwork"
    /\ LET res == waitForNetwork(netdev[proc[p].net], proc[p].polls) IN
       proc' = [proc EXCEPT ![p] =
                   IF res = "sleep" THEN [@ EXCEPT !.polls = @ + 1]
                   ELSE [@ EXCEPT !.pc = "networkReturned", !.netResult = res]]
    /\ UNCHANGED <<netsetgo, shell, netdev, hostname, uid, gid>>

\* nsInitialisation: an error of waitForNetwork is fatal, else nsRun()
NsInitWaitForNetworkIgnoreError(p) ==
    /\ proc[p].pc = "networkReturned"
    /\ proc' = [proc EXCEPT ![p] =
                   [Step(@, "waitForNetwork", proc[p].netResult = "ok")
                       EXCEPT !.pc = "nsRun"]]
    /\ UNCHANGED <<netsetgo, shell, netdev, hostname, uid, gid>>

NsInitWaitForNetwork(p) ==
    /\ proc[p].pc = "networkReturned"
    /\ LET ok == proc[p].netResult = "ok" IN
       proc' = [proc EXCEPT ![p] =
                   IF ok THEN [Step(@, "waitForNetwork", TRUE) EXCEPT !.pc = "nsRun"]
                   ELSE Exited(Printf(Step(@, "waitForNetwork", FALSE), errNetwork), 1)]
    /\ UNCHANGED <<netsetgo, shell, netdev, hostname, uid, gid>>

\* ------------------------------------------------------------- nsRun()

\* nsRun: cmd.Run() starts /bin/sh; a shell that cannot be started is fatal
NsRunStart(p) ==
    /\ proc[p].pc = "nsRun"
    /\ \/ /\ shell' = [shell EXCEPT ![p] = [state |-> "running", status |-> -1]]
          /\ proc' = [proc EXCEPT ![p] = [Step(@, "sh", TRUE) EXCEPT !.pc = "nsRunWait"]]
       \/ /\ proc' = [proc EXCEPT ![p] = Exited(Printf(Step(@, "sh", FALSE), errShell), 1)]
          /\ UNCHANGED shell
    /\ UNCHANGED <<netsetgo, netdev, hostname, uid, gid>>

\* the interactive shell ends with some exit status
ShellExit(p) ==
    /\ shell[p].state = "running"
    /\ \E s \in ShellStatuses :
          shell' = [shell EXCEPT ![p] = [state |-> "exited", status |-> s]]
    /\ UNCHANGED <<proc, netsetgo, netdev, hostname, uid, gid>>

\* nsRun: cmd.Run() returns once the shell has exited; an error (non-zero
\* status) is fatal with os.Exit(1), else nsRun and nsInitialisation return
NsRunReturnPassStatus(p) ==
    /\ proc[p].pc = "nsRunWait"
    /\ shell[p].state = "exited"
    /\ proc' = [proc EXCEPT ![p] =
                   IF exitError(shell[p].status)
                   THEN Exited(Printf(@, errShell), shell[p].status)
                   ELSE [@ EXCEPT !.pc = "initReturn"]]
    /\ UNCHANGED <<netsetgo, shell, netdev, hostname, uid, gid>>

NsRunReturn(p) ==
    /\ proc[p].pc = "nsRunWait"
    /\ shell[p].state = "exited"
    /\ proc' = [proc EXCEPT ![p] =
                   IF exitError(shell[p].status)
                   THEN Exited(Printf(@, errShell), 1)
                   ELSE [@ EXCEPT !.pc = "initReturn"]]
    /\ UNCHANGED <<netsetgo, shell, netdev, hostname, uid, gid>>

\* ------------------------------------------------------ the specification

Next ==
    \E p \in Procs :
        \/ GoInit(p)
        \/ InitExit(p)
        \/ MainStart(p)
        \/ MainRunNetsetgo(p)
        \/ NetsetgoAttach(p)
        \/ NetsetgoExit(p)
        \/ MainNetsetgoReturn(p)
        \/ MainWait(p)
        \/ NsInitMountProc(p)
        \/ NsInitPivotRoot(p)
        \/ NsInitSethostname(p)
        \/ NetworkPoll(p)
        \/ NsInitWaitForNetwork(p)
        \/ NsRunStart(p)
        \/ ShellExit(p)
        \/ NsRunReturn(p)

Spec == Init /\ [][Next]_vars

\* a step of the program image in process p (init, main, nsInitialisation,
\* nsRun), as opposed to a step of the helper or of the shell
ProgramStep(p) ==
    \/ GoInit(p) \/ InitExit(p)
    \/ MainStart(p) \/ MainRunNetsetgo(p) \/ MainNetsetgoReturn(p) \/ MainWait(p)
    \/ NsInitMountProc(p) \/ NsInitPivotRoot(p) \/ NsInitSethostname(p)
    \/ NetworkPoll(p) \/ NsInitWaitForNetwork(p)
    \/ NsRunStart(p) \/ NsRunReturn(p)

\* fair scheduling of every process; the helper terminates and a started
\* shell eventually exits; the helper need not ever attach a device
FairSpec ==
    /\ Spec
    /\ \A p \in Procs :
          /\ WF_vars(ProgramStep(p))
          /\ WF_vars(NetsetgoExit(p))
          /\ WF_vars(ShellExit(p))

\* --------------------------------------------------------------- helpers

InTrace(r, name, ok) == \E i \in 1..Len(r.trace) : r.trace[i] = <<name, ok>>
Failed(r) == \E i \in 1..Len(r.trace) : r.trace[i][2] = FALSE
Count(seq, x) == Cardinality({i \in 1..Len(seq) : seq[i] = x})
Diagnostics ==
    {errStart, errNetsetgo, errWait, errMountProc, errPivotRoot,
     errHostname, errNetwork, errShell}
IsPrefix(a, b) == Len(a) <= Len(b) /\ \A i \in 1..Len(a) : a[i] = b[i]
Names(t) == [i \in 1..Len(t) |-> t[i][1]]

Bootstraps == {q \in Procs : proc[q].pc # "none" /\ proc[q].parent # 0}
Started(p) == proc[p].cmdPid # 0
PassedGate(c) == proc[c].netResult = "ok"

\* user_namespaces(7): the host id an id inside the namespace maps to
MapToHost(table, id) ==
    {table[i].HostID + (id - table[i].ContainerID) :
        i \in {j \in 1..Len(table) :
                 /\ table[j].ContainerID <= id
                 /\ id < table[j].ContainerID + table[j].Size}}

\* ---------------------------------------------------------------- claims

\* C1: in every interleaving the bootstrap child has not passed its
\* network-wait gate (and has not started the shell) while the network
\* helper started by its launcher has not finished.
C1_GateOnlyAfterHelperFinished ==
    \A c \in Bootstraps :
        (PassedGate(c) \/ shell[c].state # "none")
            => netsetgo[proc[c].parent].state = "done"

\* C2: if the network helper fails (exits non-zero or cannot be run), the
\* launcher exits with status 1 and no shell is started at any time.
HelperFailed(p) ==
    \/ netsetgo[p].state = "done" /\ netsetgo[p].exit # 0
    \/ InTrace(proc[p], "netsetgo", FALSE)

C2_HelperFailureNoShell ==
    \A p \in Procs :
        HelperFailed(p) =>
            /\ proc[p].pc = "exited" => proc[p].exit = 1
            /\ Started(p) => shell[proc[p].cmdPid].state = "none"

\* C3: a poll that finds the device makes the network wait return success,
\* a poll without the device after the bounded number of sleeps makes it
\* return a timeout, success is returned only with the device present, and
\* a timeout ends the bootstrap child with status 1 and without a shell.
C3_Returned ==
    \A p \in Procs :
        /\ proc[p].polls <= MaxPolls
        /\ proc[p].netResult = "ok" => netdev[proc[p].net]
        /\ proc[p].netResult = "timeout" =>
              /\ proc[p].polls = MaxPolls
              /\ shell[p].state = "none"
              /\ \/ proc[p].pc = "networkReturned"
                 \/ /\ proc[p].pc = "exited"
                    /\ proc[p].exit = 1
                    /\ InTrace(proc[p], "waitForNetwork", FALSE)

C3_Poll ==
    \A p \in Procs :
        (proc[p].pc = "waitForNetwork" /\ proc'[p] # proc[p]) =>
            /\ netdev[proc[p].net] =>
                  proc'[p].pc = "networkReturned" /\ proc'[p].netResult = "ok"
            /\ (~netdev[proc[p].net] /\ proc[p].polls >= MaxPolls) =>
                  proc'[p].pc = "networkReturned" /\ proc'[p].netResult = "timeout"
            /\ (~netdev[proc[p].net] /\ proc[p].polls < MaxPolls) =>
                  proc'[p].pc = "waitForNetwork" /\ proc'[p].polls = proc[p].polls + 1

\* C3: both parts, in every state and at every poll of the network wait.
C3_NetworkWait == []C3_Returned /\ [][C3_Poll]_vars

C3_Witness ==
    \E p \in Procs :
        proc[p].netResult = "timeout" /\ proc[p].pc = "exited" /\ proc[p].exit = 1

\* C4: the launcher exits with 0 exactly when every step succeeded and the
\* shell ended with status 0, and with 1 whenever a fatal step occurred.
AllStepsOk(p) ==
    /\ InTrace(proc[p], "start", TRUE)
    /\ InTrace(proc[p], "netsetgo", TRUE)
    /\ LET c == proc[p].cmdPid IN
       /\ c # 0
       /\ Names(proc[c].trace) =
             <<"mountProc", "pivotRoot", "sethostname", "waitForNetwork", "sh">>
       /\ ~Failed(proc[c])
       /\ shell[c].state = "exited" /\ shell[c].status = 0

FatalStep(p) ==
    \/ Failed(proc[p])
    \/ Started(p) /\ Failed(proc[proc[p].cmdPid])

C4_LauncherExitCode ==
    proc[Launcher].pc = "exited" =>
        /\ proc[Launcher].exit = (IF AllStepsOk(Launcher) THEN 0 ELSE 1)
        /\ FatalStep(Launcher) => proc[Launcher].exit = 1

C4_Witness ==
    /\ proc[Launcher].pc = "exited"
    /\ proc[Launcher].exit = 0
    /\ AllStepsOk(Launcher)

\* C5: the bootstrap child runs root switch, hostname set, network wait and
\* shell launch in this order; a failed step is the last one and ends the
\* child with status 1; a shell exists only after all of them succeeded.
BootstrapOrder ==
    <<"mountProc", "pivotRoot", "sethostname", "waitForNetwork", "sh">>

C5_BootstrapOrder ==
    \A c \in Bootstraps :
        LET t == proc[c].trace IN
        /\ IsPrefix(Names(t), BootstrapOrder)
        /\ \A i \in 1..Len(t) :
              t[i][2] = FALSE =>
                 i = Len(t) /\ proc[c].pc = "exited" /\ proc[c].exit = 1
        /\ shell[c].state # "none" =>
              /\ <<proc[c].newrootPath, "proc">> \in proc[c].procfs
              /\ proc[c].root = proc[c].newrootPath
              /\ hostname[proc[c].uts] = nsHostname
              /\ proc[c].netResult = "ok"
              /\ Len(t) = Len(BootstrapOrder) /\ ~Failed(proc[c])

C5_Witness ==
    \E c \in Bootstraps :
        shell[c].state = "running" /\ Len(proc[c].trace) = Len(BootstrapOrder)

\* C6: a process re-executed as the bootstrap entry runs the bootstrap
\* function once and never runs main: it starts no child and no helper, so
\* a launch creates exactly one bootstrap process.
MainPcs == {"main", "netsetgo", "netsetgoRun", "wait"}

C6_NoFallThrough ==
    /\ \A c \in Bootstraps :
          /\ proc[c].pc \notin MainPcs
          /\ ~Started(c)
          /\ netsetgo[c].state = "none"
          /\ Count(proc[c].stdout, msgRunning) = 0
          /\ Count(proc[c].stdout, msgInitialising) <= 1
          /\ proc[c].pc \notin {"init", "nsInitialisation"}
                => Count(proc[c].stdout, msgInitialising) = 1
    /\ Cardinality(Bootstraps) <= 1
    /\ Started(Launcher) => Bootstraps = {proc[Launcher].cmdPid}

C6_Witness ==
    \E c \in Bootstraps :
        proc[c].pc = "exited" /\ proc[c].exit = 0 /\ shell[c].state = "exited"

\* C7: for every real uid and gid of the caller the tables handed to
\* process creation each hold the single entry (0, real id, 1), so id 0
\* inside the user namespace maps to the caller's real id outside.
C7_IdentityMapping ==
    \A c \in Bootstraps :
        /\ "CLONE_NEWUSER" \in proc[c].attr.Cloneflags
        /\ proc[c].attr.UidMappings =
              <<[ContainerID |-> 0, HostID |-> uid, Size |-> 1]>>
        /\ proc[c].attr.GidMappings =
              <<[ContainerID |-> 0, HostID |-> gid, Size |-> 1]>>
        /\ MapToHost(proc[c].attr.UidMappings, 0) = {uid}
        /\ MapToHost(proc[c].attr.GidMappings, 0) = {gid}

C7_Witness ==
    \E c \in Bootstraps : uid # 0 /\ gid # uid /\ proc[c].pc = "nsInitialisation"

\* C8 as stated: whatever status the shell ends with, the bootstrap child
\* and the launcher exit with that same status.
C8_StatusPropagates ==
    \A c \in Bootstraps :
        shell[c].state = "exited" =>
            /\ proc[c].pc = "exited" => proc[c].exit = shell[c].status
            /\ proc[proc[c].parent].pc = "exited"
                  => proc[proc[c].parent].exit = shell[c].status

\* C8 amended: the bootstrap child exits with 0 when the shell ends with
\* status 0 and with 1 when it ends with any other status, and a launcher
\* whose wait on that child returned exits with the child's 0 or 1.
C8_StatusCollapsed ==
    \A c \in Bootstraps :
        (shell[c].state = "exited" /\ proc[c].pc = "exited") =>
            /\ proc[c].exit = (IF shell[c].status = 0 THEN 0 ELSE 1)
            /\ proc[c].waited =>
                  /\ proc[proc[c].parent].pc = "exited"
                  /\ proc[proc[c].parent].exit = proc[c].exit

C8_Witness ==
    \E c \in Bootstraps :
        /\ shell[c].state = "exited" /\ shell[c].status > 1
        /\ proc[c].waited
        /\ proc[proc[c].parent].exit = 1

\* C9: the launcher starts the child, then runs the helper with the
\* child's pid, then waits: a helper exists only after a successful start,
\* it has finished before the child is waited on, and its pid argument is
\* the started, not yet awaited child of this launcher.
LauncherOrder == <<"start", "netsetgo", "wait">>

C9_LauncherOrder ==
    \A p \in Procs :
        /\ IsPrefix(Names(proc[p].trace), LauncherOrder)
              \/ p \in Bootstraps
        /\ netsetgo[p].state # "none" =>
              /\ InTrace(proc[p], "start", TRUE)
              /\ Started(p)
              /\ netsetgo[p].pidArg = proc[p].cmdPid
              /\ proc[proc[p].cmdPid].pc # "none"
              /\ proc[proc[p].cmdPid].parent = p
        /\ netsetgo[p].state = "running" =>
              /\ proc[p].pc = "netsetgoRun"
              /\ ~proc[proc[p].cmdPid].waited
        /\ (Started(p) /\ proc[proc[p].cmdPid].waited) =>
              /\ netsetgo[p].state = "done"
              /\ InTrace(proc[p], "netsetgo", TRUE)

C9_Witness ==
    \E p \in Procs :
        /\ netsetgo[p].state = "running"
        /\ proc[proc[p].cmdPid].pc = "exited"
        /\ ~proc[proc[p].cmdPid].waited

\* C10: a process that exits with a non-zero status after a fatal failure
\* has written the diagnostic of the failing step to standard error and
\* none to standard output.
C10_DiagnosticOnStderr ==
    \A p \in Procs :
        (proc[p].pc = "exited" /\ proc[p].exit # 0) =>
            /\ \E i \in 1..Len(proc[p].stderr) : proc[p].stderr[i] \in Diagnostics
            /\ \A i \in 1..Len(proc[p].stdout) : proc[p].stdout[i] \notin Diagnostics

\* C11: setting the hostname in the bootstrap child changes the hostname of
\* the child's own UTS namespace only: the host's hostname keeps the value
\* it had before the launch in every reachable state.
C11_HostHostnameUnchanged ==
    /\ hostname[HostNs] = hostHostname
    /\ \A c \in Bootstraps :
          /\ proc[c].uts # HostNs
          /\ proc[c].uts # proc[proc[c].parent].uts
          /\ InTrace(proc[c], "sethostname", TRUE)
                => hostname[proc[c].uts] = nsHostname

C11_Witness ==
    \E c \in Bootstraps :
        /\ InTrace(proc[c], "sethostname", TRUE)
        /\ hostname[proc[c].uts] = nsHostname
        /\ hostname[HostNs] # hostname[proc[c].uts]

\* C12: in the root switch the proc filesystem is mounted under the new
\* root before the pivot is attempted, the pivot is attempted only after a
\* successful mount, and a failed mount ends the bootstrap child with
\* status 1 without any pivot.
PivotAttempted(r) == InTrace(r, "pivotRoot", TRUE) \/ InTrace(r, "pivotRoot", FALSE)

C12_MountBeforePivot ==
    \A c \in Bootstraps :
        /\ (PivotAttempted(proc[c]) \/ proc[c].pc = "pivotRoot") =>
              /\ Len(proc[c].trace) >= 1
              /\ proc[c].trace[1] = <<"mountProc", TRUE>>
              /\ <<proc[c].newrootPath, "proc">> \in proc[c].procfs
        /\ proc[c].root # "/" => <<proc[c].root, "proc">> \in proc[c].procfs
        /\ InTrace(proc[c], "mountProc", FALSE) =>
              /\ proc[c].pc = "exited" /\ proc[c].exit = 1
              /\ ~PivotAttempted(proc[c])
              /\ proc[c].root = "/"
              /\ proc[c].procfs = {}

C12_Witness ==
    \E c \in Bootstraps :
        InTrace(proc[c], "mountProc", FALSE) /\ proc[c].pc = "exited"

\* C13: no step is retried and nothing runs after a fatal failure: each of
\* start, helper run, wait, proc mount, pivot, hostname set, network wait
\* and shell start happens at most once in a run, a failed step is the last
\* step of its process, the helper is never invoked after a failed start,
\* and the child is never waited on after a failed helper.
StepNames ==
    {"start", "netsetgo", "wait", "mountProc", "pivotRoot",
     "sethostname", "waitForNetwork", "sh"}

Attempts(name) ==
    {<<p, i>> \in Procs \X (1..Cardinality(StepNames) + 1) :
        i <= Len(proc[p].trace) /\ proc[p].trace[i][1] = name}

C13_NoRetryNothingAfterFailure ==
    /\ \A name \in StepNames : Cardinality(Attempts(name)) <= 1
    /\ \A p \in Procs :
          /\ Len(proc[p].trace) <= Cardinality(StepNames)
          /\ \A i \in 1..Len(proc[p].trace) :
                proc[p].trace[i][2] = FALSE =>
                    i = Len(proc[p].trace) /\ proc[p].pc = "exited"
          /\ Cardinality({q \in Procs : proc[q].parent = p}) <= 1
          /\ InTrace(proc[p], "start", FALSE) =>
                netsetgo[p].state = "none" /\ ~Started(p)
          /\ HelperFailed(p) =>
                /\ ~InTrace(proc[p], "wait", TRUE) /\ ~InTrace(proc[p], "wait", FALSE)
                /\ Started(p) => ~proc[proc[p].cmdPid].waited
                /\ proc[p].pc \in {"netsetgoRun", "exited"}

C13_Witness ==
    \E p \in Procs :
        /\ netsetgo[p].state = "done" /\ netsetgo[p].exit # 0
        /\ proc[p].pc = "exited"
        /\ proc[proc[p].cmdPid].pc = "exited"
        /\ ~proc[proc[p].cmdPid].waited

\* C14: the root path the bootstrap child reads from its argument is the
\* path the launcher passed at process creation, "/tmp/ns-process/rootfs",
\* and that one value is what the proc mount and the pivot are given.
C14_RootPathHandedOver ==
    \A c \in Bootstraps :
        /\ proc[c].args = <<bootstrapName, "/tmp/ns-process/rootfs">>
        /\ proc[c].newrootPath \in {"", proc[c].args[2]}
        /\ proc[c].pc \notin {"init", "nsInitialisation"}
              => proc[c].newrootPath = "/tmp/ns-process/rootfs"
        /\ proc[c].procfs \subseteq {<<"/tmp/ns-process/rootfs", "proc">>}
        /\ proc[c].root \in {"/", "/tmp/ns-process/rootfs"}
        /\ InTrace(proc[c], "mountProc", TRUE)
              => proc[c].procfs = {<<proc[c].args[2], "proc">>}
        /\ InTrace(proc[c], "pivotRoot", TRUE) => proc[c].root = proc[c].args[2]

C14_Witness ==
    \E c \in Bootstraps :
        /\ InTrace(proc[c], "pivotRoot", TRUE)
        /\ proc[c].root = rootfsPath
        /\ <<rootfsPath, "proc">> \in proc[c].procfs

\* C15: no bootstrap child outlives its launcher: whenever the launcher has
\* exited after starting the bootstrap child, that child has terminated and
\* has been waited on.
C15_NoChildOutlivesLauncher ==
    \A p \in Procs :
        (proc[p].pc = "exited" /\ Started(p)) =>
            /\ proc[proc[p].cmdPid].pc = "exited"
            /\ proc[proc[p].cmdPid].waited

\* C16: under fair scheduling, with a helper that terminates and a shell
\* that eventually exits, every launch terminates: the launcher reaches an
\* exit with status 0 or 1 and stays neither in the helper run nor in the
\* wait on the bootstrap child for ever.
C16_LaunchTerminates ==
    /\ <>(proc[Launcher].pc = "exited" /\ proc[Launcher].exit \in {0, 1})
    /\ (proc[Launcher].pc = "netsetgoRun") ~> (proc[Launcher].pc # "netsetgoRun")
    /\ (proc[Launcher].pc = "wait") ~> (proc[Launcher].pc = "exited")

C16_Witness ==
    /\ proc[Launcher].pc = "exited"
    /\ netsetgo[Launcher].state = "done"
    /\ InTrace(proc[Launcher], "wait", FALSE)
    /\ proc[proc[Launcher].cmdPid].netResult = "timeout"

====
